---- MODULE Spec2Model ----
(***************************************************************************)
(* Client-side interaction layer of the RadProc form (index.js).           *)
(*                                                                         *)
(* index.js holds two DOMContentLoaded initializers (lines 6-201 and       *)
(* 254-521).  Both run on every page load, in that order, and both         *)
(* register handlers on the same elements.  The first registers without    *)
(* any guard; the second registers behind the element's dataset.bound      *)
(* marker.  The page state below is the state of the DOM elements the      *)
(* handlers read and write, the per-tab storage, and the asynchronous      *)
(* submissions started by the fetch-based submit handler.                  *)
(*                                                                         *)
(* The settings view (config.js) is modelled next to it: the two hidden    *)
(* list fields, the list editor and the permissive parser of list texts.   *)
(* The completion sound of the main page (sound.js) is the variable sound. *)
(***************************************************************************)
EXTENDS Naturals, Sequences, FiniteSets

\* ------------------------------------------------------------------ bounds
\* Requests in flight at the same time.
MaxSubmits == 2
\* Lines the log may grow to before the page is reloaded or reset.
MaxLog == 4
\* Longest Content-Disposition header, in tokens.
MaxHdrLen == 4
\* Longest text handed to the list parser on its own, in characters.
MaxTexto == 4
\* Longest list of simple tokens, and longest simple token in characters.
MaxTokens == 2
MaxToken == 3
\* Longest text typed into the list editor, in characters.
MaxEdit == 1
\* Unlock attempts of the completion sound that await their promise.
MaxPendientes == 2

\* ------------------------------------------------------------------ values
\* Copies of the index.js script a page carries: one, or the script injected twice.
Copias == {1, 2}
Tipos == {"", "agua", "suelo"}
Archivos == {"a.zip", "b.zip"}
SinArchivo == ""

\* sessionStorage.getItem gives null for a key that is not stored.
Ausente == "<null>"
Claves == {"zip_name", "archivo_seleccionado", "fue_config_con_zip"}
StorageVacio == [k \in Claves |-> Ausente]

\* The three states of the status label #nombre-carpeta-datos.
SpanNinguno == [clase |-> "text-muted", texto |-> "Ningun archivo seleccionado"]
SpanOk(nombre) == [clase |-> "text-success", texto |-> nombre]
SpanRequerido(msg) == [clase |-> "text-warning", texto |-> msg]
MsgVolverACargar == "Debes volver a cargar el archivo ZIP antes de procesar."
MsgSeleccionarZip == "Debes seleccionar un archivo ZIP."

LabelProcesando == "Procesando..."
LabelIdle == "Procesar y descargar"

\* The reference (spectralon) picker and its label #nombre-spectralon.
SpectralonArchivos == {"s.txt"}
SpectralonLiteral == "SRT-99-120.txt (por defecto)"
\* The label's data-default attribute as the server renders it, or none.
DataDefaults == {Ausente, "otro.txt (por defecto)"}
\* getAttribute('data-default') || "SRT-99-120.txt (por defecto)"
TextoPorDefecto(dd) == IF dd # Ausente THEN dd ELSE SpectralonLiteral
LabelSpectralon(texto) == [texto |-> texto, muted |-> TRUE]
LabelSpectralonElegido(f) == [texto |-> f, muted |-> FALSE]

VARIABLES
  tipo,            \* tipoSelect.value
  hiddenMedicion,  \* hiddenMedicion.value
  tipoClase,       \* "agua" / "suelo" class of tipoSelect, "" when neither
  archivo,         \* name of inputArchivo.files[0], SinArchivo when no file
  archivoDisabled, \* inputArchivo.disabled
  btnDisabled,     \* btnProcesar.disabled
  btnLabel,        \* btnProcesar.textContent
  formOpaco,       \* formDatos carries class opacity-75
  nombreSpan,      \* status label
  storage,         \* sessionStorage
  logArea,         \* lines of #log-area
  handlers,        \* number of listeners registered per element/event
  bound,           \* elements whose dataset.bound is "1"
  subs,            \* submissions of the fetch handler that await a promise
  fin,             \* what the last step did, when it ended a submission
  ev,              \* what the last step did, when it was a submit, a reset or an export
  pagina,          \* the view the tab shows: "inicio" (main form) or "config"
  inputSpectralon, \* name of inputSpectralon.files[0], "" when no file
  nombreSpectralon,\* label of the reference picker
  dataDefault,     \* data-default attribute of that label
  inputEl,         \* settings view: value of the hidden fields meas_order and target_list
  editor,          \* settings view: text of the list editor
  feedback,        \* settings view: inline message of the list editor
  modal,           \* settings view: the list editor is shown
  currentField,    \* settings view: the field the editor was last opened on
  hist,            \* settings view: how far the user is in open, edit, dismiss, open again
  parse,           \* the last call of parseToArrayLoose made on its own
  sound            \* sound.js: unlocked, its listeners, its pending play() promises

vars == <<tipo, hiddenMedicion, tipoClase, archivo, archivoDisabled, btnDisabled,
          btnLabel, formOpaco, nombreSpan, storage, logArea, handlers, bound,
          subs, fin, ev, pagina, inputSpectralon, nombreSpectralon, dataDefault,
          inputEl, editor, feedback, modal, currentField, hist, parse, sound>>

\* The reference picker, its label and the view: what the handlers of the
\* measurement form leave alone.
otros == <<pagina, inputSpectralon, nombreSpectralon, dataDefault>>

\* The settings view and the list parser: what the main page leaves alone.
config == <<inputEl, editor, feedback, modal, currentField, hist, parse>>

\* The main page: what the settings view leaves alone.
principal == <<tipo, hiddenMedicion, tipoClase, archivo, archivoDisabled,
               btnDisabled, btnLabel, formOpaco, nombreSpan, storage, logArea,
               handlers, bound, subs, fin, ev, pagina, inputSpectralon,
               nombreSpectralon, dataDefault, sound>>

\* sound.js as first run in a document: locked, its three listeners on
\* window, no play() awaited.  logrado: an unlock attempt has succeeded;
\* ultimo: what the last step started, an unlock cycle ("desbloqueo") or the
\* playback of the sound ("reproduccion").
SonidoInicial ==
  [unlocked |-> FALSE, escucha |-> TRUE, pendientes |-> 0, logrado |-> FALSE,
   ultimo |-> ""]

\* The hidden list fields of the settings form.
Campos == {"meas_order", "target_list"}

\* currentField before any editor was opened.
Nulo == "null"

\* feedback of the list editor: none, "Ingresa al menos un valor...", and
\* "Solo se permiten valores...".
FeedbackVacio == ""
FeedbackSinValores == "Ingresa al menos un valor (coma-separado o JSON)."
FeedbackSoloVocabulario == "Solo se permiten valores: spectralon, target, cielo."

\* No call of the parser recorded.
ParseNinguno ==
  [kind |-> "", texto |-> <<>>, tokens |-> <<>>, sep |-> <<>>,
   arr |-> <<>>, arr2 |-> <<>>]

\* The settings view is not the one shown.
ConfigCerrada ==
  /\ inputEl = [f \in Campos |-> <<>>]
  /\ editor = <<>>
  /\ feedback = FeedbackVacio
  /\ modal = FALSE
  /\ currentField = Nulo
  /\ hist = ""
  /\ parse = ParseNinguno

\* ------------------------------------------------------------------ helpers

\* setProcesando(isOn): the three properties it assigns.
setProcesando(isOn) ==
  [disabled |-> isOn,
   label |-> IF isOn THEN LabelProcesando ELSE LabelIdle,
   opaco |-> isOn]

\* Variant: the "selected" label whatever the name.
setNombreArchivoSiempreOk(nombre) == SpanOk(nombre)

setNombreArchivoOk(nombre) ==
  IF nombre # "" THEN SpanOk(nombre) ELSE SpanNinguno

setNombreArchivoRequerido(msg) == SpanRequerido(msg)

\* Variant: only the picker follows the type; the button stays disabled.
habilitarSoloArchivo(t) == [archivo |-> t = "", btn |-> TRUE]

\* habilitarCargaSiHayTipo: the disabled flags of the picker and of the button.
habilitarCargaSiHayTipo(t) ==
  LET hayTipo == t # ""
  IN [archivo |-> ~hayTipo, btn |-> ~hayTipo]

\* aplicarColorSelect: the class left on the select.
aplicarColorSelect(t) == IF t \in {"agua", "suelo"} THEN t ELSE ""

\* Variant: the line replaces the text.
appendLogReemplaza(log, linea) == <<linea>>

\* appendLog(msg): one more line at the end of the log text.
appendLog(log, linea) == Append(log, linea)

LineaInicio == [k |-> "inicio", status |-> 0, txt |-> ""]
LineaExito == [k |-> "exito", status |-> 0, txt |-> ""]
LineaServidor(status, txt) == [k |-> "servidor", status |-> status, txt |-> txt]
LineaRed == [k |-> "red", status |-> 0, txt |-> ""]

\* RECURSIVE application of appendLog over several lines.
RECURSIVE appendAll(_, _)
appendAll(log, lineas) ==
  IF lineas = <<>> THEN log
  ELSE appendAll(appendLog(log, Head(lineas)), Tail(lineas))

\* ------------------------------------------------------------------ page load

\* limpiarLista: the reset listeners in the order they were added, "uno" for
\* the first initializer's and "dos" for the second's.
SinHandlers ==
  [tipoChange |-> 0, archivoChange |-> 0, submitValida |-> 0, submitFetch |-> 0,
   limpiar |-> 0, limpiarLista |-> <<>>, spectralonChange |-> 0, exportar |-> 0]

\* "Estado inicial" and the fue_config_con_zip check, shared by both initializers.
EstadoInicial(d) ==
  LET hab == habilitarCargaSiHayTipo(d.tipo)
      volvio == d.storage["fue_config_con_zip"] = "1"
  IN [d EXCEPT
        !.hidden = d.tipo,
        !.clase = aplicarColorSelect(d.tipo),
        !.archivoDisabled = hab.archivo,
        !.btnDisabled = hab.btn,
        !.storage = IF volvio
                    THEN [d.storage EXCEPT !["fue_config_con_zip"] = Ausente,
                                           !["archivo_seleccionado"] = Ausente,
                                           !["zip_name"] = Ausente]
                    ELSE d.storage,
        !.avisos = IF volvio THEN d.avisos + 1 ELSE d.avisos,
        !.span = IF volvio THEN setNombreArchivoRequerido(MsgVolverACargar)
                 ELSE setNombreArchivoOk("")]

\* Variant: the listener is added whatever dataset.bound holds.
GuardedAddDesprotegido(d, el, campo) ==
  [d EXCEPT !.handlers = [d.handlers EXCEPT ![campo] = @ + 1],
            !.bound = d.bound \cup {el}]

\* if (el && !el.dataset.bound) { addEventListener; dataset.bound = "1" }
GuardedAdd(d, el, campo) ==
  IF el \in d.bound THEN d
  ELSE [d EXCEPT !.handlers = [d.handlers EXCEPT ![campo] = @ + 1],
                 !.bound = d.bound \cup {el}]

\* First initializer: the listeners of the form are added without a guard,
\* that of the reference picker behind dataset.bound.
InitializerUno(d) ==
  LET e == EstadoInicial(d)
      e1 == [e EXCEPT
               !.handlers = [e.handlers EXCEPT
                               !.tipoChange = @ + 1,
                               !.archivoChange = @ + 1,
                               !.submitValida = @ + 1]]
      e2 == GuardedAdd(e1, "inputSpectralon", "spectralonChange")
  IN [e2 EXCEPT
        !.handlers = [e2.handlers EXCEPT
                        !.limpiar = @ + 1,
                        !.limpiarLista = Append(@, "uno")]]

\* Second initializer: every listener is added behind dataset.bound.
InitializerDos(d) ==
  LET e0 == EstadoInicial(d)
      e1 == GuardedAdd(e0, "tipoSelect", "tipoChange")
      e2 == GuardedAdd(e1, "inputArchivo", "archivoChange")
      e3 == GuardedAdd(e2, "inputSpectralon", "spectralonChange")
      e4 == GuardedAdd(e3, "formDatos", "submitFetch")
      e5 == GuardedAdd(e4, "btnExp", "exportar")
      e6 == GuardedAdd(e5, "formLimpiar", "limpiar")
  IN IF e6.handlers.limpiar > e5.handlers.limpiar
     THEN [e6 EXCEPT !.handlers = [e6.handlers EXCEPT
                                     !.limpiarLista = Append(@, "dos")]]
     ELSE e6

\* The DOMContentLoaded dispatch for n copies of the script.
RECURSIVE RunScripts(_, _)
RunScripts(d, n) ==
  IF n = 0 THEN d ELSE RunScripts(InitializerDos(InitializerUno(d)), n - 1)

\* The document as the server renders it, before any script has run.
Documento(t, sto) ==
  [tipo |-> t, hidden |-> "", clase |-> "", archivoDisabled |-> FALSE,
   btnDisabled |-> FALSE, span |-> SpanNinguno, storage |-> sto,
   handlers |-> SinHandlers, bound |-> {}, avisos |-> 0]

\* resp.headers.get('Content-Disposition'): null when the header is absent.
SinHeader == [presente |-> FALSE, texto |-> <<>>]
ConHeader(h) == [presente |-> TRUE, texto |-> h]

\* A submission awaits fetch ("fetch"), resp.text() ("text") or resp.blob()
\* ("blob"); a slot that holds none is "libre".
Slots == 1..MaxSubmits
SlotLibre == [pc |-> "libre", status |-> 0]
NuevaSub == [pc |-> "fetch", status |-> 0]

FinNinguno ==
  [hecho |-> FALSE, slot |-> 0, via |-> "", status |-> 0, dispo |-> SinHeader,
   leido |-> FALSE, body |-> "",
   lineas |-> <<>>, descargas |-> <<>>, sonido |-> 0, nOff |-> 0]

EvNinguno == [kind |-> "", prevenido |-> FALSE, pasa |-> FALSE,
              fetches |-> 0, avisos |-> 0, falla |-> ""]

\* Every content the per-tab storage can have.
Storages ==
  {[zip_name |-> z, archivo_seleccionado |-> a, fue_config_con_zip |-> f] :
     z \in Archivos \cup {Ausente}, a \in {"1", Ausente}, f \in {"1", Ausente}}

\* The document once every initializer has run, for each rendered type, number
\* of script copies and storage content.
DocumentoListo ==
  [t \in Tipos, n \in Copias, sto \in Storages |-> RunScripts(Documento(t, sto), n)]

Cargar(t, n, sto, dd) ==
  \E d \in {DocumentoListo[t, n, sto]} :
     /\ pagina' = "inicio"
     /\ inputSpectralon' = ""
     /\ nombreSpectralon' = LabelSpectralon(TextoPorDefecto(dd))
     /\ dataDefault' = dd
     /\ tipo' = d.tipo
     /\ hiddenMedicion' = d.hidden
     /\ tipoClase' = d.clase
     /\ archivo' = SinArchivo
     /\ archivoDisabled' = d.archivoDisabled
     /\ btnDisabled' = d.btnDisabled
     /\ btnLabel' = LabelIdle
     /\ formOpaco' = FALSE
     /\ nombreSpan' = d.span
     /\ storage' = d.storage
     /\ logArea' = <<>>
     /\ handlers' = d.handlers
     /\ bound' = d.bound
     /\ subs' = [i \in Slots |-> SlotLibre]
     /\ fin' = FinNinguno
     /\ ev' = EvNinguno
     /\ sound' = SonidoInicial
     /\ UNCHANGED config

\* The elements of the main page as first loaded in a tab: nothing stored
\* yet.
PaginaPrincipal(t, n, dd) ==
    \E d \in {DocumentoListo[t, n, StorageVacio]} :
       /\ inputSpectralon = ""
       /\ nombreSpectralon = LabelSpectralon(TextoPorDefecto(dd))
       /\ dataDefault = dd
       /\ tipo = d.tipo
       /\ hiddenMedicion = d.hidden
       /\ tipoClase = d.clase
       /\ archivo = SinArchivo
       /\ archivoDisabled = d.archivoDisabled
       /\ btnDisabled = d.btnDisabled
       /\ btnLabel = LabelIdle
       /\ formOpaco = FALSE
       /\ nombreSpan = d.span
       /\ storage = d.storage
       /\ logArea = <<>>
       /\ handlers = d.handlers
       /\ bound = d.bound
       /\ subs = [i \in Slots |-> SlotLibre]
       /\ fin = FinNinguno
       /\ ev = EvNinguno
       /\ sound = SonidoInicial

\* The main page as first opened in a tab.
Abierta(t, n, dd) ==
  /\ PaginaPrincipal(t, n, dd)
  /\ pagina = "inicio"
  /\ ConfigCerrada

Init == \E t \in Tipos, n \in Copias : Abierta(t, n, Ausente)

\* A reload of, or a navigation back to, the main page: a fresh document, the
\* per-tab storage kept, requests of the old document dropped.  D: what the
\* server may render as data-default.
PageLoadCon(D) ==
  \E t \in Tipos, n \in Copias, dd \in D : Cargar(t, n, storage, dd)

PageLoad == PageLoadCon({Ausente})

\* ------------------------------------------------------------------ type change

\* change on #tipo-medicion; every registered listener runs the same body.
TipoChange ==
  \E v \in Tipos :
    /\ pagina = "inicio"
    /\ v # tipo
    /\ handlers.tipoChange > 0
    /\ tipo' = v
    /\ hiddenMedicion' = v
    /\ tipoClase' = aplicarColorSelect(v)
    /\ archivoDisabled' = habilitarCargaSiHayTipo(v).archivo
    /\ btnDisabled' = habilitarCargaSiHayTipo(v).btn
    /\ ev' = EvNinguno
    /\ fin' = FinNinguno
    /\ UNCHANGED <<archivo, btnLabel, formOpaco, nombreSpan, storage, logArea,
                   handlers, bound, subs>>
    /\ UNCHANGED otros
    /\ UNCHANGED config
    /\ UNCHANGED sound

\* ------------------------------------------------------------------ file picker

\* change on input[name=zipfile].  A disabled picker cannot be operated, and
\* the click listener suppresses the file dialog while no type is chosen.
ArchivoChange ==
  \E f \in Archivos \cup {SinArchivo} :
    /\ pagina = "inicio"
    /\ ~archivoDisabled
    /\ tipo # ""
    /\ f # archivo
    /\ handlers.archivoChange > 0
    /\ archivo' = f
    /\ storage' = IF f # SinArchivo
                  THEN [storage EXCEPT !["zip_name"] = f,
                                       !["archivo_seleccionado"] = "1"]
                  ELSE [storage EXCEPT !["zip_name"] = Ausente,
                                       !["archivo_seleccionado"] = Ausente]
    /\ nombreSpan' = setNombreArchivoOk(f)
    /\ ev' = EvNinguno
    /\ fin' = FinNinguno
    /\ UNCHANGED <<tipo, hiddenMedicion, tipoClase, archivoDisabled, btnDisabled,
                   btnLabel, formOpaco, logArea, handlers, bound, subs>>
    /\ UNCHANGED otros
    /\ UNCHANGED config
    /\ UNCHANGED sound

\* ------------------------------------------------------------------ response

Comilla == "\""
\* The literal filename= of the pattern, in the spellings the /i flag accepts.
PrefijosFilename == {"filename=", "FILENAME="}
Alfabeto == PrefijosFilename \cup {Comilla, "x", "y"}
NombrePorDefecto == <<"resultados.zip">>

\* Length of the run of tokens other than the quote that starts at position j.
RECURSIVE RunNoComilla(_, _)
RunNoComilla(h, j) ==
  IF j > Len(h) \/ h[j] = Comilla THEN 0 ELSE 1 + RunNoComilla(h, j + 1)

SinMatch == [ok |-> FALSE, grupo |-> <<>>]

\* Variant: the pattern with [^"]* in place of [^"]+.
MatchAtVacio(h, i) ==
  IF i + 1 <= Len(h) /\ h[i] \in PrefijosFilename /\ h[i + 1] = Comilla
  THEN LET n == RunNoComilla(h, i + 2)
       IN IF i + 2 + n <= Len(h)
          THEN [ok |-> TRUE, grupo |-> SubSeq(h, i + 2, i + 1 + n)]
          ELSE SinMatch
  ELSE SinMatch

\* /filename="([^"]+)"/i tried at position i: the literal, a greedy run of at
\* least one non-quote token, the closing quote.
MatchAt(h, i) ==
  IF i + 1 <= Len(h) /\ h[i] \in PrefijosFilename /\ h[i + 1] = Comilla
  THEN LET n == RunNoComilla(h, i + 2)
       IN IF n >= 1 /\ i + 2 + n <= Len(h)
          THEN [ok |-> TRUE, grupo |-> SubSeq(h, i + 2, i + 1 + n)]
          ELSE SinMatch
  ELSE SinMatch

\* String.prototype.match: the leftmost position at which the pattern matches.
RECURSIVE Buscar(_, _)
Buscar(h, i) ==
  IF i > Len(h) THEN SinMatch
  ELSE IF MatchAt(h, i).ok THEN MatchAt(h, i) ELSE Buscar(h, i + 1)

\* const dispo = get(..) || ''; const m = dispo.match(..); m ? m[1] : 'resultados.zip'
NombreDescarga(dispo) ==
  LET texto == IF dispo.presente THEN dispo.texto ELSE <<>>
      m == Buscar(texto, 1)
  IN IF m.ok THEN m.grupo ELSE NombrePorDefecto

Statuses == {200, 500}
RespOk(status) == status >= 200 /\ status <= 299
Bodies == {"boom"}
\* What the global playDoneSound is when the handler probes it.
Callbacks == {"ausente", "silencio", "suena", "lanza"}

\* What one run of the code after the fetch adds: log lines, downloads, calls
\* of playDoneSound, calls of setProcesando(false).
SinEfecto == [lineas |-> <<>>, descargas |-> <<>>, sonido |-> 0, nOff |-> 0]

\* Variant: no finally block.
FinallyOmitido(e) == e

\* finally { setProcesando(false); }
Finally(e) == [e EXCEPT !.nOff = @ + 1]

\* catch (err) { appendLog(...red o del cliente...) } followed by the finally.
RamaCatch(e) == Finally([e EXCEPT !.lineas = Append(@, LineaRed)])

\* Variant: the error branch does not return and falls through to the download.
RamaNoOkSinReturn(status, txt) ==
  Finally([SinEfecto EXCEPT !.lineas = <<LineaServidor(status, txt), LineaExito>>,
                            !.descargas = <<NombrePorDefecto>>,
                            !.nOff = 1])

\* if (!resp.ok) { ...appendLog; setProcesando(false); return; } and the finally.
RamaNoOk(status, txt) ==
  Finally([SinEfecto EXCEPT !.lineas = <<LineaServidor(status, txt)>>,
                            !.nOff = 1])

\* Lines 450-465 once the blob is read.  falla = "build": an exception before
\* a.click(); cb: what playDoneSound is.
RamaExito(dispo, falla, cb) ==
  IF falla = "build" THEN RamaCatch(SinEfecto)
  ELSE LET e1 == [SinEfecto EXCEPT !.descargas = <<NombreDescarga(dispo)>>,
                                   !.lineas = <<LineaExito>>]
           e2 == IF cb = "ausente" THEN e1 ELSE [e1 EXCEPT !.sonido = 1]
       IN IF cb = "lanza" THEN RamaCatch(e2) ELSE Finally(e2)

EnVuelo == {i \in Slots : subs[i].pc # "libre"}
Libres == Slots \ EnVuelo
PrimerosLibres(n) == {i \in Libres : Cardinality({j \in Libres : j < i}) < n}

\* The effect of the code that ends submission i, applied to the page.
Terminar(i, efecto, via, dispo, leido, body) ==
  \E e \in {efecto} :
    /\ subs' = [subs EXCEPT ![i] = SlotLibre]
    /\ fin' = [hecho |-> TRUE, slot |-> i, via |-> via, status |-> subs[i].status,
               dispo |-> dispo, leido |-> leido, body |-> body,
               lineas |-> e.lineas, descargas |-> e.descargas,
               sonido |-> e.sonido, nOff |-> e.nOff]
    /\ logArea' = appendAll(logArea, e.lineas)
    /\ IF e.nOff > 0
       THEN /\ btnDisabled' = setProcesando(FALSE).disabled
            /\ btnLabel' = setProcesando(FALSE).label
            /\ formOpaco' = setProcesando(FALSE).opaco
       ELSE UNCHANGED <<btnDisabled, btnLabel, formOpaco>>
    /\ ev' = EvNinguno
    /\ UNCHANGED <<tipo, hiddenMedicion, tipoClase, archivo, archivoDisabled,
                   nombreSpan, storage, handlers, bound>>
    /\ UNCHANGED otros
    /\ UNCHANGED config
    /\ UNCHANGED sound

\* ------------------------------------------------------------------ submit

\* Variant: the file is tested before the type.
ValidarArchivoPrimero(hayTipo, tieneArchivo) ==
  IF ~tieneArchivo THEN "zip" ELSE IF ~hayTipo THEN "tipo" ELSE "ok"

\* Variant: the file is not tested.
ValidarSoloTipo(hayTipo, tieneArchivo) ==
  IF ~hayTipo THEN "tipo" ELSE "ok"

\* The two preconditions, in the order both submit listeners test them:
\* "tipo" when no type is chosen, else "zip" when no file is present.
Validar(hayTipo, tieneArchivo) ==
  IF ~hayTipo THEN "tipo" ELSE IF ~tieneArchivo THEN "zip" ELSE "ok"

\* submit on #form-datos.  The validating listener of the first initializer and
\* the fetch listener of the second read the same two conditions; the fetch
\* listener runs up to its first await.  The button submits only while enabled.
SubmitDatos ==
  LET hayTipo == tipo # ""
      tieneArchivo == archivo # SinArchivo
      nV == handlers.submitValida
      nF == handlers.submitFetch
      v == Validar(hayTipo, tieneArchivo)
      pasa == v = "ok"
  IN /\ pagina = "inicio"
     /\ ~btnDisabled
     /\ nV + nF > 0
     /\ pasa => /\ Cardinality(EnVuelo) + nF <= MaxSubmits
                 /\ Len(logArea) + Cardinality(EnVuelo) + 2 * nF <= MaxLog
     /\ fin' = FinNinguno
     /\ ev' = [kind |-> "submit",
               prevenido |-> (nF > 0) \/ (~pasa /\ nV > 0),
               pasa |-> pasa,
               fetches |-> IF pasa THEN nF ELSE 0,
               avisos |-> IF pasa THEN 0 ELSE nV + nF,
               falla |-> ""]
     /\ nombreSpan' = IF v = "zip" /\ nV + nF > 0
                      THEN setNombreArchivoRequerido(MsgSeleccionarZip)
                      ELSE nombreSpan
     /\ IF pasa /\ nF > 0
        THEN /\ btnDisabled' = setProcesando(TRUE).disabled
             /\ btnLabel' = setProcesando(TRUE).label
             /\ formOpaco' = setProcesando(TRUE).opaco
             /\ logArea' = appendAll(logArea, [k \in 1..nF |-> LineaInicio])
             /\ subs' = [i \in Slots |->
                           IF i \in PrimerosLibres(nF) THEN NuevaSub ELSE subs[i]]
        ELSE UNCHANGED <<btnDisabled, btnLabel, formOpaco, logArea, subs>>
     /\ UNCHANGED <<tipo, hiddenMedicion, tipoClase, archivo, archivoDisabled,
                    storage, handlers, bound>>
     /\ UNCHANGED otros
     /\ UNCHANGED config
     /\ UNCHANGED sound

\* await fetch(...) resolves with a response of some status.
FetchResolve(i) ==
  /\ subs[i].pc = "fetch"
  /\ \E st \in Statuses :
       subs' = [subs EXCEPT ![i] = [pc |-> IF RespOk(st) THEN "blob" ELSE "text",
                                    status |-> st]]
  /\ ev' = EvNinguno
  /\ fin' = FinNinguno
  /\ UNCHANGED <<tipo, hiddenMedicion, tipoClase, archivo, archivoDisabled,
                 btnDisabled, btnLabel, formOpaco, nombreSpan, storage, logArea,
                 handlers, bound>>
  /\ UNCHANGED otros
  /\ UNCHANGED config
  /\ UNCHANGED sound

\* await fetch(...) rejects: transport failure.
FetchReject(i) ==
  /\ subs[i].pc = "fetch"
  /\ Terminar(i, RamaCatch(SinEfecto), "red", SinHeader, FALSE, "")

\* await resp.text().catch(() => '') settles: the body, or '' when the read fails.
TextSettle(i) ==
  /\ subs[i].pc = "text"
  /\ \E leido \in BOOLEAN, body \in Bodies :
       Terminar(i, RamaNoOk(subs[i].status, IF leido THEN body ELSE ""),
                "servidor", SinHeader, leido, body)

\* await resp.blob() resolves and the handler runs to its end; h is what the
\* response's Content-Disposition header holds when line 451 reads it.
BlobResolve(i, H) ==
  /\ subs[i].pc = "blob"
  /\ \E h \in H, falla \in {"no", "build"}, cb \in Callbacks :
       Terminar(i, RamaExito(h, falla, cb),
                IF falla = "build" THEN "build"
                ELSE IF cb = "lanza" THEN "sonido" ELSE "exito", h, FALSE, "")

\* await resp.blob() rejects: the body could not be read.
BlobReject(i) ==
  /\ subs[i].pc = "blob"
  /\ Terminar(i, RamaCatch(SinEfecto), "blob", SinHeader, FALSE, "")

\* ------------------------------------------------------------------ reset

\* The steps inside the try block of a reset listener, in source order.
PasosLimpiar == <<"storage", "tipo", "archivo", "span", "log", "spectralon">>
PosPaso(p) == CHOOSE i \in 1..Len(PasosLimpiar) : PasosLimpiar[i] = p

\* Which step throws: none, or sessionStorage.clear() (storage access denied).
FallasLimpiar == {"no", "storage"}

\* A step runs when no step throws or when it comes before the one that does.
Alcanza(p, falla) == falla = "no" \/ PosPaso(p) < PosPaso(falla)

\* try { ... } catch (e) { console.warn }: the steps up to the throwing one.
\* cual: "uno" writes the literal default label, "dos" the data-default one.
PasosHechos(d, cual, falla) ==
  [d EXCEPT
     !.storage = IF Alcanza("storage", falla) THEN StorageVacio ELSE @,
     !.tipo = IF Alcanza("tipo", falla) THEN "" ELSE @,
     !.clase = IF Alcanza("tipo", falla) THEN "" ELSE @,
     !.archivo = IF Alcanza("archivo", falla) THEN SinArchivo ELSE @,
     !.span = IF Alcanza("span", falla) THEN SpanNinguno ELSE @,
     !.log = IF Alcanza("log", falla) THEN <<>> ELSE @,
     !.spectralon = IF Alcanza("spectralon", falla) THEN "" ELSE @,
     !.label = IF Alcanza("spectralon", falla)
               THEN LabelSpectralon(IF cual = "uno" THEN SpectralonLiteral
                                    ELSE TextoPorDefecto(d.dd))
               ELSE @]

\* Variant: the catch block cancels the submission.
LimpiarHandlerPreviene(d, cual, falla) ==
  [PasosHechos(d, cual, falla) EXCEPT !.prevenido = @ \/ falla # "no"]

\* One reset listener: it takes no event argument and never calls
\* preventDefault, so d.prevenido stays as it was.
LimpiarHandler(d, cual, falla) == PasosHechos(d, cual, falla)

\* The listeners of the submit event of #form-limpiar, in registration order.
RECURSIVE LimpiarTodos(_, _, _)
LimpiarTodos(d, lista, falla) ==
  IF lista = <<>> THEN d
  ELSE LimpiarTodos(LimpiarHandler(d, Head(lista), falla), Tail(lista), falla)

\* submit on #form-limpiar; F: the steps that may throw.
LimpiarCon(F) ==
  /\ pagina = "inicio"
  /\ handlers.limpiar > 0
  /\ \E falla \in F :
       \E r \in {LimpiarTodos([storage |-> storage, tipo |-> tipo,
                               clase |-> tipoClase, archivo |-> archivo,
                               span |-> nombreSpan, log |-> logArea,
                               spectralon |-> inputSpectralon,
                               label |-> nombreSpectralon, dd |-> dataDefault,
                               prevenido |-> FALSE],
                              handlers.limpiarLista, falla)} :
         /\ storage' = r.storage
         /\ tipo' = r.tipo
         /\ tipoClase' = r.clase
         /\ archivo' = r.archivo
         /\ nombreSpan' = r.span
         /\ logArea' = r.log
         /\ inputSpectralon' = r.spectralon
         /\ nombreSpectralon' = r.label
         /\ ev' = [EvNinguno EXCEPT !.kind = "limpiar",
                                    !.prevenido = r.prevenido,
                                    !.falla = falla]
  /\ fin' = FinNinguno
  /\ UNCHANGED <<hiddenMedicion, archivoDisabled, btnDisabled, btnLabel,
                 formOpaco, handlers, bound, subs, pagina, dataDefault>>
  /\ UNCHANGED config
  /\ UNCHANGED sound

\* The reset with no step failing.
Limpiar == LimpiarCon({"no"})

\* ------------------------------------------------------------------ reference picker

\* change on #input-spectralon.
SpectralonChange ==
  \E f \in SpectralonArchivos \cup {""} :
    /\ pagina = "inicio"
    /\ handlers.spectralonChange > 0
    /\ f # inputSpectralon
    /\ inputSpectralon' = f
    /\ nombreSpectralon' = IF f # "" THEN LabelSpectralonElegido(f)
                           ELSE LabelSpectralon(TextoPorDefecto(dataDefault))
    /\ ev' = EvNinguno
    /\ fin' = FinNinguno
    /\ UNCHANGED <<tipo, hiddenMedicion, tipoClase, archivo, archivoDisabled,
                   btnDisabled, btnLabel, formOpaco, nombreSpan, storage,
                   logArea, handlers, bound, subs, pagina, dataDefault>>
    /\ UNCHANGED config
    /\ UNCHANGED sound

\* ------------------------------------------------------------------ log export

\* click on #btn-exportar-log: the log text goes into radproc_log.txt.
ExportarLog ==
  /\ pagina = "inicio"
  /\ handlers.exportar > 0
  /\ ev' = [EvNinguno EXCEPT !.kind = "export"]
  /\ fin' = FinNinguno
  /\ UNCHANGED <<tipo, hiddenMedicion, tipoClase, archivo, archivoDisabled,
                 btnDisabled, btnLabel, formOpaco, nombreSpan, storage,
                 logArea, handlers, bound, subs>>
  /\ UNCHANGED otros
  /\ UNCHANGED config
  /\ UNCHANGED sound

\* ------------------------------------------------------------------ settings view

\* abrirConfiguraciones() that records the ZIP before it asks.
abrirConfiguracionesMarcaAntes(t, sto, continuar) ==
  LET yaHayZip == sto["archivo_seleccionado"] = "1"
      navega == t # "" /\ (yaHayZip => continuar)
  IN [navega |-> navega,
      storage |-> IF t = "" THEN sto
                  ELSE IF yaHayZip THEN [sto EXCEPT !["fue_config_con_zip"] = "1"]
                  ELSE [sto EXCEPT !["fue_config_con_zip"] = Ausente]]

\* abrirConfiguraciones() of main.js, for the type t, the storage sto and the
\* answer to the confirmation.  With no type it only warns; with a ZIP
\* recorded it asks for confirmation and, when declined, returns; otherwise it
\* sets or removes fue_config_con_zip and navigates to the settings view.
abrirConfiguraciones(t, sto, continuar) ==
  LET yaHayZip == sto["archivo_seleccionado"] = "1"
      navega == t # "" /\ (yaHayZip => continuar)
  IN [navega |-> navega,
      storage |-> IF ~navega THEN sto
                  ELSE IF yaHayZip THEN [sto EXCEPT !["fue_config_con_zip"] = "1"]
                  ELSE [sto EXCEPT !["fue_config_con_zip"] = Ausente]]

\* click on the settings button, the user answering continuar if asked.
AbrirConfiguracionesCon(continuar) ==
  /\ pagina = "inicio"
  /\ \E r \in {abrirConfiguraciones(tipo, storage, continuar)} :
       /\ storage' = r.storage
       /\ pagina' = IF r.navega THEN "config" ELSE "inicio"
       /\ ev' = [EvNinguno EXCEPT !.kind = "config", !.pasa = r.navega,
                                  !.avisos = IF tipo = "" THEN 1 ELSE 0]
  /\ fin' = FinNinguno
  /\ UNCHANGED <<tipo, hiddenMedicion, tipoClase, archivo, archivoDisabled,
                 btnDisabled, btnLabel, formOpaco, nombreSpan, logArea,
                 handlers, bound, subs, inputSpectralon, nombreSpectralon,
                 dataDefault>>
  /\ UNCHANGED config
  /\ UNCHANGED sound

AbrirConfiguraciones == \E continuar \in BOOLEAN : AbrirConfiguracionesCon(continuar)

\* ------------------------------------------------------------------ list texts (config.js)

\* A text is a sequence of characters.  A run of letters that no operation
\* splits is one character: the words below, and x for any other word.  "7"
\* is a digit and "n" the letter n (of the escape \n).
Apostrofo == "'"
Coma == ","
CorcheteAbre == "["
CorcheteCierra == "]"
Espacio == " "
NuevaLinea == "\n"
Barra == "\\"
Digitos == {"7"}
Palabras == {"spectralon", "Cielo", "x"}
Blancos == {Espacio, NuevaLinea}

\* What the user types into the editor and what the server renders into the
\* hidden fields.
Teclas ==
  {CorcheteAbre, CorcheteCierra, Coma, Comilla, Apostrofo, Espacio}
    \cup Digitos \cup Palabras

\* String.prototype.toLowerCase, character by character.
toLowerCase(v) ==
  [k \in 1..Len(v) |-> IF v[k] = "Cielo" THEN "cielo" ELSE v[k]]

\* The first position from i on that holds no white space.
RECURSIVE SaltarBlancos(_, _)
SaltarBlancos(s, i) ==
  IF i <= Len(s) /\ s[i] \in Blancos THEN SaltarBlancos(s, i + 1) ELSE i

\* The last position up to j that holds no white space.
RECURSIVE RetrocederBlancos(_, _)
RetrocederBlancos(s, j) ==
  IF j >= 1 /\ s[j] \in Blancos THEN RetrocederBlancos(s, j - 1) ELSE j

\* String.prototype.trim that trims nothing.
TrimNada(s) == s

\* String.prototype.trim.
Trim(s) == SubSeq(s, SaltarBlancos(s, 1), RetrocederBlancos(s, Len(s)))

\* String.prototype.split(",") of the text from i on, the piece in progress
\* being pieza: the pieces between the commas.
RECURSIVE Split(_, _, _)
Split(s, i, pieza) ==
  IF i > Len(s) THEN <<pieza>>
  ELSE IF s[i] = Coma THEN <<pieza>> \o Split(s, i + 1, <<>>)
  ELSE Split(s, i + 1, Append(pieza, s[i]))

\* Array.prototype.join(sep) of texts.
RECURSIVE Join(_, _)
Join(arr, sep) ==
  IF arr = <<>> THEN <<>>
  ELSE IF Len(arr) = 1 THEN arr[1]
  ELSE arr[1] \o sep \o Join(Tail(arr), sep)

\* Array.prototype.filter(Boolean) of texts: the empty ones go.
RECURSIVE FilterBoolean(_)
FilterBoolean(arr) ==
  IF arr = <<>> THEN <<>>
  ELSE IF arr[1] = <<>> THEN FilterBoolean(Tail(arr))
  ELSE <<arr[1]>> \o FilterBoolean(Tail(arr))

\* s.replace(/^['"]|['"]$/g, ""): a quote at the start goes, and a quote at
\* the end goes.
SinComillas(s) ==
  LET desde == IF Len(s) >= 1 /\ s[1] \in {Comilla, Apostrofo} THEN 2 ELSE 1
      hasta == IF Len(s) >= desde /\ s[Len(s)] \in {Comilla, Apostrofo}
               THEN Len(s) - 1 ELSE Len(s)
  IN SubSeq(s, desde, hasta)

\* ------------------------------------------------------------------ JSON

\* A parsed value: a string or a number with its characters, or an array
\* with its values.  Fallo: the text is no JSON.
Fallo == [ok |-> FALSE, val |-> [t |-> "", v |-> <<>>], sig |-> 0]
Leido(t, v, sig) == [ok |-> TRUE, val |-> [t |-> t, v |-> v], sig |-> sig]

\* A JSON string whose opening quote was read: up to the closing quote, the
\* escapes of quote, backslash and line feed undone.
RECURSIVE LeerString(_, _, _)
LeerString(s, i, acc) ==
  IF i > Len(s) THEN Fallo
  ELSE IF s[i] = Comilla THEN Leido("str", acc, i + 1)
  ELSE IF s[i] = NuevaLinea THEN Fallo
  ELSE IF s[i] = Barra
       THEN IF i + 1 <= Len(s) /\ s[i + 1] \in {Comilla, Barra, "n"}
            THEN LeerString(s, i + 2,
                            Append(acc, IF s[i + 1] = "n" THEN NuevaLinea
                                        ELSE s[i + 1]))
            ELSE Fallo
  ELSE LeerString(s, i + 1, Append(acc, s[i]))

\* The end of the run of digits that starts at i.
RECURSIVE FinDigitos(_, _)
FinDigitos(s, i) ==
  IF i <= Len(s) /\ s[i] \in Digitos THEN FinDigitos(s, i + 1) ELSE i

\* A JSON value that starts at i, and the elements of an array up to its
\* closing bracket.
RECURSIVE LeerValor(_, _)
RECURSIVE LeerElementos(_, _, _)
LeerValor(s, i) ==
  IF i > Len(s) THEN Fallo
  ELSE IF s[i] = Comilla THEN LeerString(s, i + 1, <<>>)
  ELSE IF s[i] \in Digitos
       THEN Leido("num", SubSeq(s, i, FinDigitos(s, i) - 1), FinDigitos(s, i))
  ELSE IF s[i] = CorcheteAbre
       THEN LET j == SaltarBlancos(s, i + 1)
            IN IF j <= Len(s) /\ s[j] = CorcheteCierra
               THEN Leido("arr", <<>>, j + 1)
               ELSE LeerElementos(s, j, <<>>)
  ELSE Fallo

LeerElementos(s, i, acc) ==
  LET r == LeerValor(s, i)
      j == SaltarBlancos(s, r.sig)
  IN IF ~r.ok \/ j > Len(s) THEN Fallo
     ELSE IF s[j] = Coma
          THEN LeerElementos(s, SaltarBlancos(s, j + 1), Append(acc, r.val))
     ELSE IF s[j] = CorcheteCierra
          THEN Leido("arr", Append(acc, r.val), j + 1)
     ELSE Fallo

\* JSON.parse: one value with white space around it; ok FALSE when it throws.
JSONParse(text) ==
  LET r == LeerValor(text, SaltarBlancos(text, 1))
  IN IF r.ok /\ SaltarBlancos(text, r.sig) = Len(text) + 1 THEN r ELSE Fallo

\* String(v) of a parsed value: an array gives its elements joined by commas.
RECURSIVE String(_)
String(val) ==
  IF val.t = "arr"
  THEN Join([k \in 1..Len(val.v) |-> String(val.v[k])], <<Coma>>)
  ELSE val.v

\* JSON.stringify of a string: quoted, with quote, backslash and line feed
\* escaped.
Escapar(c) ==
  IF c = Comilla THEN <<Barra, Comilla>>
  ELSE IF c = Barra THEN <<Barra, Barra>>
  ELSE IF c = NuevaLinea THEN <<Barra, "n">>
  ELSE <<c>>

Citar(v) ==
  <<Comilla>> \o Join([k \in 1..Len(v) |-> Escapar(v[k])], <<>>) \o <<Comilla>>

\* JSON.stringify that writes the strings without their quotes.
JSONStringifySinComillas(arr) ==
  <<CorcheteAbre>> \o Join(arr, <<Coma>>) \o <<CorcheteCierra>>

\* JSON.stringify(arr) of an array of strings.
JSONStringify(arr) ==
  <<CorcheteAbre>>
    \o Join([k \in 1..Len(arr) |-> Citar(arr[k])], <<Coma>>)
    \o <<CorcheteCierra>>

\* JSON.stringify(arr, null, 2) of an array of strings.
JSONStringifyPretty(arr) ==
  IF arr = <<>> THEN <<CorcheteAbre, CorcheteCierra>>
  ELSE <<CorcheteAbre, NuevaLinea>>
         \o Join([k \in 1..Len(arr) |-> <<Espacio, Espacio>> \o Citar(arr[k])],
                 <<Coma, NuevaLinea>>)
         \o <<NuevaLinea, CorcheteCierra>>

\* ------------------------------------------------------------------ parseToArrayLoose

\* parsed.map(String) of a parsed array.
MapString(val) == [k \in 1..Len(val.v) |-> String(val.v[k])]

\* The fallback of parseToArrayLoose: trim, drop the brackets, split on
\* commas, trim each piece, drop the empty pieces, then drop the quotes.
Suelto(text) ==
  LET t0 == Trim(text)
      t == IF Len(t0) >= 1 /\ t0[1] = CorcheteAbre /\ t0[Len(t0)] = CorcheteCierra
           THEN SubSeq(t0, 2, Len(t0) - 1) ELSE t0
      partes == Split(t, 1, <<>>)
      limpias == FilterBoolean([k \in 1..Len(partes) |-> Trim(partes[k])])
  IN [k \in 1..Len(limpias) |-> SinComillas(limpias[k])]

\* parseToArrayLoose(text): a JSON array gives its elements as strings, any
\* other text goes to the fallback.
parseToArrayLoose(text) ==
  LET parsed == JSONParse(text)
  IN IF parsed.ok /\ parsed.val.t = "arr" THEN MapString(parsed.val)
     ELSE Suelto(text)

\* ------------------------------------------------------------------ list editor (config.js)

\* The values meas_order may hold.
Vocabulario == {<<"spectralon">>, <<"target">>, <<"cielo">>}

\* The vocabulary test that lets every value through.
EnVocabularioTodo(v) == TRUE

\* ["spectralon","target","cielo"].includes(v.toLowerCase()).
EnVocabulario(v) == toLowerCase(v) \in Vocabulario

\* The checks of applyEditor without the one for the empty list.
ValidarListaSinVacio(field, arr) ==
  IF field = "meas_order" /\ ~(\A k \in 1..Len(arr) : EnVocabulario(arr[k]))
  THEN "vocabulario" ELSE "ok"

\* The checks of applyEditor, in their order: the list is not empty, and the
\* list of meas_order stays within the vocabulary.
ValidarLista(field, arr) ==
  IF Len(arr) = 0 THEN "vacia"
  ELSE IF field = "meas_order" /\ ~(\A k \in 1..Len(arr) : EnVocabulario(arr[k]))
       THEN "vocabulario"
  ELSE "ok"

\* The view as the handlers of the editor see it.
Vista ==
  [inputEl |-> inputEl, editor |-> editor, feedback |-> feedback,
   modal |-> modal, currentField |-> currentField]

\* openEditor that keeps the text the editor holds.
openEditorSinCargar(e, field) ==
  [e EXCEPT !.currentField = field, !.feedback = FeedbackVacio, !.modal = TRUE]

\* openEditor(field): the field's list, pretty-printed, goes into the editor.
openEditor(e, field) ==
  [e EXCEPT !.currentField = field,
            !.editor = JSONStringifyPretty(parseToArrayLoose(e.inputEl[field])),
            !.feedback = FeedbackVacio,
            !.modal = TRUE]

\* What applyEditor does with the list arr, given the verdict of its checks:
\* a message, or the list goes into the hidden field campo and the editor
\* closes.
Aplicar(e, veredicto, campo, arr) ==
  IF veredicto = "vacia" THEN [e EXCEPT !.feedback = FeedbackSinValores]
  ELSE IF veredicto = "vocabulario"
       THEN [e EXCEPT !.feedback = FeedbackSoloVocabulario]
  ELSE [e EXCEPT !.inputEl = IF campo \in Campos
                             THEN [@ EXCEPT ![campo] = JSONStringify(arr)]
                             ELSE @,
                 !.modal = FALSE]

\* applyEditor that closes the editor whatever the checks say.
applyEditorCierra(e) ==
  [Aplicar(e, ValidarLista(e.currentField, parseToArrayLoose(e.editor)),
           e.currentField, parseToArrayLoose(e.editor))
     EXCEPT !.modal = FALSE]

\* applyEditor that writes into meas_order whatever field was opened.
applyEditorFijo(e) ==
  Aplicar(e, ValidarLista(e.currentField, parseToArrayLoose(e.editor)),
          "meas_order", parseToArrayLoose(e.editor))

\* applyEditor().
applyEditor(e) ==
  Aplicar(e, ValidarLista(e.currentField, parseToArrayLoose(e.editor)),
          e.currentField, parseToArrayLoose(e.editor))

\* The submit handler that rewrites JSON arrays only.
NormalizarSoloArrays(v) ==
  IF JSONParse(v).ok /\ JSONParse(v).val.t = "arr"
  THEN JSONStringify(MapString(JSONParse(v).val))
  ELSE v

\* The submit handler of the settings form, for one hidden field.
Normalizar(v) ==
  IF JSONParse(v).ok /\ JSONParse(v).val.t = "arr"
  THEN JSONStringify(MapString(JSONParse(v).val))
  ELSE JSONStringify(parseToArrayLoose(v))

\* The view after a handler; h: where the user then is in open, edit,
\* dismiss, open again.
Mostrar(e, h) ==
  /\ inputEl' = e.inputEl
  /\ editor' = e.editor
  /\ feedback' = e.feedback
  /\ modal' = e.modal
  /\ currentField' = e.currentField
  /\ hist' = h
  /\ UNCHANGED parse
  /\ UNCHANGED principal

\* click on a .btn-edit-list button.  The editor's backdrop is static: while
\* the editor is shown the buttons behind it take no click.
OpenEditor(field) ==
  /\ pagina = "config"
  /\ ~modal
  /\ Mostrar(openEditor(Vista, field),
             IF hist = "descartado" THEN "reabierto" ELSE "abierto")

\* The user replaces the text of the editor.
EditarTexto(T) ==
  /\ pagina = "config"
  /\ modal
  /\ \E t \in T : Mostrar([Vista EXCEPT !.editor = t], "editado")

\* click on #btn-aplicar-lista, or Ctrl/Cmd+Enter in the editor.
ApplyEditor ==
  /\ pagina = "config"
  /\ modal
  /\ Mostrar(applyEditor(Vista),
             IF ~applyEditor(Vista).modal THEN ""
             ELSE IF hist = "reabierto" THEN "abierto" ELSE hist)

\* The editor is dismissed (close button, Cancelar, Esc): no handler runs.
CancelarEditor ==
  /\ pagina = "config"
  /\ modal
  /\ Mostrar([Vista EXCEPT !.modal = FALSE],
             IF hist = "editado" THEN "descartado" ELSE "")

\* submit on #form-config: both hidden fields are normalized.
SubmitConfig ==
  /\ pagina = "config"
  /\ ~modal
  /\ Mostrar([Vista EXCEPT !.inputEl = [f \in Campos |-> Normalizar(@[f])]], "")

\* ------------------------------------------------------------------ completion sound (sound.js)

\* The script's state after a step; the form and the settings view are not
\* touched.
Sonar(snd) ==
  /\ sound' = snd
  /\ UNCHANGED <<tipo, hiddenMedicion, tipoClase, archivo, archivoDisabled,
                 btnDisabled, btnLabel, formOpaco, nombreSpan, storage, logArea,
                 handlers, bound, subs, fin, ev, pagina, inputSpectralon,
                 nombreSpectralon, dataDefault>>
  /\ UNCHANGED config

\* click, keydown or touchstart on the window.  With the listeners removed
\* nothing runs; tryUnlock() returns at once when unlocked, and otherwise
\* calls audio.play() and awaits its promise.
Interaccion ==
  /\ pagina = "inicio"
  /\ sound.pendientes < MaxPendientes
  /\ Sonar(IF sound.escucha /\ ~sound.unlocked
           THEN [sound EXCEPT !.pendientes = @ + 1, !.ultimo = "desbloqueo"]
           ELSE [sound EXCEPT !.ultimo = ""])

\* The promise of a play() of tryUnlock settles: fulfilled, the audio is
\* paused and rewound, unlocked is set and the listeners are removed;
\* rejected, nothing is done.
PlaySettle ==
  /\ pagina = "inicio"
  /\ sound.pendientes > 0
  /\ \E ok \in BOOLEAN :
       Sonar(IF ok
             THEN [sound EXCEPT !.pendientes = @ - 1, !.unlocked = TRUE,
                                !.escucha = FALSE, !.logrado = TRUE,
                                !.ultimo = ""]
             ELSE [sound EXCEPT !.pendientes = @ - 1, !.ultimo = ""])

\* playDoneSound() that plays whether unlocked or not.
PlayDoneSoundSinGuardia ==
  /\ pagina = "inicio"
  /\ Sonar([sound EXCEPT !.ultimo = "reproduccion"])

\* window.playDoneSound(): returns when locked, else rewinds and plays.
PlayDoneSound ==
  /\ pagina = "inicio"
  /\ Sonar(IF sound.unlocked THEN [sound EXCEPT !.ultimo = "reproduccion"]
           ELSE [sound EXCEPT !.ultimo = ""])

\* ------------------------------------------------------------------ specifications

\* Headers of the responses in the page-level specification.
DisposicionesMuestra ==
  {SinHeader, ConHeader(<<"filename=", Comilla, "x", Comilla>>)}

\* Every header of at most MaxHdrLen tokens, and the absent header.
DisposicionesTodas ==
  {SinHeader} \cup
  {ConHeader(h) : h \in UNION {[1..n -> Alfabeto] : n \in 0..MaxHdrLen}}

\* One step of submission i after its request was issued.
Avanzar(i, H) ==
  \/ FetchResolve(i)
  \/ FetchReject(i)
  \/ TextSettle(i)
  \/ BlobResolve(i, H)
  \/ BlobReject(i)

Next ==
  \/ PageLoad
  \/ TipoChange
  \/ ArchivoChange
  \/ SubmitDatos
  \/ \E i \in Slots : FetchResolve(i)
  \/ \E i \in Slots : FetchReject(i)
  \/ \E i \in Slots : TextSettle(i)
  \/ \E i \in Slots : BlobResolve(i, DisposicionesMuestra)
  \/ \E i \in Slots : BlobReject(i)
  \/ Limpiar

Spec == Init /\ [][Next]_vars

\* One page carrying the script once, neither reloaded nor reset (the reset
\* form's submission leaves the page), whose transport settles every promise.
NextPagina ==
  \/ TipoChange
  \/ ArchivoChange
  \/ SubmitDatos
  \/ \E i \in Slots : Avanzar(i, DisposicionesMuestra)

InitPagina == Init /\ handlers.submitValida = 1

FairSpec ==
  /\ InitPagina
  /\ [][NextPagina]_vars
  /\ \A i \in Slots : WF_vars(Avanzar(i, DisposicionesMuestra))

\* The main form and the settings view: file and type changes, submits whose
\* transport fails, reset, opening the settings view, and loads of the main
\* page (reload or return).
NextNavegacion ==
  \/ PageLoad
  \/ TipoChange
  \/ ArchivoChange
  \/ SubmitDatos
  \/ \E i \in Slots : FetchReject(i)
  \/ AbrirConfiguraciones
  \/ Limpiar

SpecNavegacion == Init /\ [][NextNavegacion]_vars

\* The reset form, from pages with any rendered default label, with a file, a
\* reference file and log lines present, any step of the reset failing.
NextLimpiar ==
  \/ PageLoadCon(DataDefaults)
  \/ TipoChange
  \/ ArchivoChange
  \/ SpectralonChange
  \/ SubmitDatos
  \/ \E i \in Slots : FetchReject(i)
  \/ LimpiarCon(FallasLimpiar)

InitLimpiar == \E t \in Tipos, n \in Copias, dd \in DataDefaults : Abierta(t, n, dd)

SpecLimpiar == InitLimpiar /\ [][NextLimpiar]_vars

\* One page load carrying the script once, with the export button.
NextLog ==
  \/ TipoChange
  \/ ArchivoChange
  \/ SubmitDatos
  \/ \E i \in Slots : Avanzar(i, DisposicionesMuestra)
  \/ ExportarLog

SpecLog == InitPagina /\ [][NextLog]_vars

\* The success path alone, over every header.
NextDisposicion ==
  \/ ArchivoChange
  \/ SubmitDatos
  \/ \E i \in Slots : FetchResolve(i)
  \/ \E i \in Slots : BlobResolve(i, DisposicionesTodas)

InitDisposicion == Init /\ tipo = "agua" /\ handlers.submitValida = 1

SpecDisposicion == InitDisposicion /\ [][NextDisposicion]_vars

\* ---- the list parser on its own

\* Every text of at most n typed characters.
TextosHasta(n) == UNION {[1..k -> Teclas] : k \in 0..n}

\* The simple tokens made of a word, a digit and the space: not empty, no
\* comma, quote or bracket, no white space at the ends.
TokensSimples ==
  {tok \in UNION {[1..k -> {"x", "7", Espacio}] : k \in 1..MaxToken} :
     /\ \A k \in 1..Len(tok) : tok[k] \notin {Coma, Comilla, Apostrofo,
                                                CorcheteAbre, CorcheteCierra}
     /\ tok[1] \notin Blancos
     /\ tok[Len(tok)] \notin Blancos}

\* The tab shows the settings view; the main page it came from is gone.
EnConfiguraciones ==
  /\ PaginaPrincipal("agua", 1, Ausente)
  /\ pagina = "config"

\* The settings view with its editor never opened.
EditorSinAbrir ==
  /\ EnConfiguraciones
  /\ inputEl = [f \in Campos |-> <<>>]
  /\ editor = <<>>
  /\ feedback = FeedbackVacio
  /\ modal = FALSE
  /\ currentField = Nulo
  /\ hist = ""

\* A text is about to be parsed.
InitParse ==
  /\ EditorSinAbrir
  /\ \E t \in TextosHasta(MaxTexto) :
       parse = [ParseNinguno EXCEPT !.kind = "texto", !.texto = t]

\* A list of simple tokens is about to be parsed in its two forms, the
\* comma-separated one written with a comma or with a comma and a space.
InitFormas ==
  /\ EditorSinAbrir
  /\ \E n \in 0..MaxTokens : \E toks \in [1..n -> TokensSimples] :
       \E sep \in {<<Coma>>, <<Coma, Espacio>>} :
         parse = [ParseNinguno EXCEPT !.kind = "tokens", !.tokens = toks,
                                      !.sep = sep]

\* parseToArrayLoose(text).
ParsearTexto ==
  /\ parse.kind = "texto"
  /\ parse' = [parse EXCEPT !.kind = "lista",
                            !.arr = parseToArrayLoose(parse.texto)]
  /\ UNCHANGED <<inputEl, editor, feedback, modal, currentField, hist>>
  /\ UNCHANGED principal

\* parseToArrayLoose of the JSON form and of the comma-separated form of a
\* list of tokens.
ParsearFormas ==
  /\ parse.kind = "tokens"
  /\ parse' = [parse EXCEPT
                 !.kind = "formas",
                 !.arr = parseToArrayLoose(JSONStringify(parse.tokens)),
                 !.arr2 = parseToArrayLoose(Join(parse.tokens, parse.sep))]
  /\ UNCHANGED <<inputEl, editor, feedback, modal, currentField, hist>>
  /\ UNCHANGED principal

\* parseToArrayLoose(JSON.stringify(arr)) of the list just parsed.
Reparsear ==
  /\ parse.kind = "lista"
  /\ parse' = [parse EXCEPT
                 !.kind = "relista",
                 !.arr2 = parseToArrayLoose(JSONStringify(parse.arr))]
  /\ UNCHANGED <<inputEl, editor, feedback, modal, currentField, hist>>
  /\ UNCHANGED principal

\* The submit normalization of a field that holds the text, once (arr) and
\* twice (arr2).
NormalizarDosVeces ==
  /\ parse.kind = "texto"
  /\ parse' = [parse EXCEPT
                 !.kind = "normal",
                 !.arr = Normalizar(parse.texto),
                 !.arr2 = Normalizar(Normalizar(parse.texto))]
  /\ UNCHANGED <<inputEl, editor, feedback, modal, currentField, hist>>
  /\ UNCHANGED principal

SpecParse ==
  InitParse /\ [][ParsearTexto \/ Reparsear \/ NormalizarDosVeces]_vars

SpecFormas == InitFormas /\ [][ParsearFormas]_vars

\* ---- the list editor

\* Texts of every kind: blank, white space, the empty array, lists within
\* and out of the vocabulary in both forms, a JSON value that is no array,
\* a JSON array of values that are no strings, and malformed JSON.
TextosMuestra ==
  { <<>>,
    <<Espacio>>,
    <<CorcheteAbre, CorcheteCierra>>,
    <<CorcheteAbre, Comilla, "spectralon", Comilla, Coma, Comilla, "Cielo", Comilla, CorcheteCierra>>,
    <<"spectralon", Coma, Espacio, "Cielo">>,
    <<CorcheteAbre, Comilla, "Cielo", Comilla, Coma, Comilla, "x", Comilla, CorcheteCierra>>,
    <<"7">>,
    <<CorcheteAbre, "7", Coma, CorcheteAbre, CorcheteCierra, CorcheteCierra>>,
    <<CorcheteAbre, Comilla, "x">> }

\* What the user may type into the editor: the texts above, and every text
\* of at most MaxEdit of the characters quote, comma, x and Cielo.
TextosEditor ==
  TextosMuestra
    \cup UNION {[1..k -> {Comilla, Coma, "x", "Cielo"}] : k \in 0..MaxEdit}

\* The settings view as the server renders it.
InitEditor ==
  /\ EnConfiguraciones
  /\ inputEl \in [Campos -> TextosMuestra]
  /\ editor = <<>>
  /\ feedback = FeedbackVacio
  /\ modal = FALSE
  /\ currentField = Nulo
  /\ hist = ""
  /\ parse = ParseNinguno

NextEditor ==
  \/ \E f \in Campos : OpenEditor(f)
  \/ EditarTexto(TextosEditor)
  \/ ApplyEditor
  \/ CancelarEditor
  \/ SubmitConfig

SpecEditor == InitEditor /\ [][NextEditor]_vars

\* The settings view as the server renders it, meas_order holding a list
\* within the vocabulary.
InitMedicion ==
  /\ InitEditor
  /\ inputEl["meas_order"] \in
       { <<CorcheteAbre, Comilla, "spectralon", Comilla, Coma, Comilla, "Cielo", Comilla, CorcheteCierra>>,
         <<"spectralon", Coma, Espacio, "Cielo">> }

SpecMedicion == InitMedicion /\ [][NextEditor]_vars

\* ---- the completion sound

\* The user picks a type and a file and touches the page; play() promises
\* settle; the page calls playDoneSound.
SpecSonido ==
  Init /\ [][\/ TipoChange
             \/ ArchivoChange
             \/ Interaccion
             \/ PlaySettle
             \/ PlayDoneSound]_vars

\* ------------------------------------------------------------------ claims

\* C1: at most one submission request is in flight, and the submit control is
\* disabled whenever a request is in flight.
C1_UnaSolaEnVuelo ==
  /\ Cardinality(EnVuelo) <= 1
  /\ EnVuelo # {} => btnDisabled

\* C2: for every submission that passed both preconditions, whatever its
\* outcome, setProcesando(false) is executed exactly once.
C2_FinalizaUnaVez == fin.hecho => fin.nOff = 1

\* C3: every submission that is in flight eventually ends with the submit
\* control enabled and its label restored, on every exit path.
C3_VuelveAIdle ==
  \A i \in Slots :
    (subs[i].pc # "libre")
      ~> (fin.hecho /\ fin.slot = i /\ ~btnDisabled /\ btnLabel = LabelIdle)

C3_Witness ==
  /\ fin.hecho /\ fin.via = "sonido"
  /\ ~btnDisabled /\ btnLabel = LabelIdle

\* C4: whenever the measurement type is empty, the file picker and the submit
\* control are both disabled.
C4_VacioDeshabilita == tipo = "" => (archivoDisabled /\ btnDisabled)

\* C5: whenever the measurement type is non-empty, the file picker is enabled,
\* and the submit control is enabled when no submission is in flight.
C5_TipoHabilita ==
  tipo # "" => (~archivoDisabled /\ (EnVuelo = {} => ~btnDisabled))

C5_Witness ==
  /\ tipo # "" /\ fin.hecho /\ EnVuelo = {}
  /\ ~archivoDisabled /\ ~btnDisabled

\* C6: a submit with an empty measurement type issues no request and changes
\* nothing but the warning: status label, log, storage, submit control and the
\* submissions in flight stay as they were, also when no file is present.
C6_SubmitSinTipo ==
  [][(ev'.kind = "submit" /\ tipo = "")
       => /\ ev'.fetches = 0
          /\ ev'.avisos > 0
          /\ UNCHANGED <<nombreSpan, logArea, storage, btnDisabled, btnLabel,
                         formOpaco, subs>>]_vars

C6_Witness ==
  /\ ev.kind = "submit" /\ tipo = "" /\ archivo = SinArchivo
  /\ ev.avisos > 0 /\ ev.fetches = 0

\* C7: a submit with a measurement type but no file issues no request, does not
\* enter the in-flight state, appends nothing to the log and sets the status
\* label to the "must select ZIP" warning.
C7_SubmitSinArchivo ==
  [][(ev'.kind = "submit" /\ tipo # "" /\ archivo = SinArchivo)
       => /\ ev'.fetches = 0
          /\ UNCHANGED <<subs, logArea, btnDisabled, btnLabel, formOpaco>>
          /\ nombreSpan' = SpanRequerido(MsgSeleccionarZip)]_vars

C7_Witness ==
  /\ ev.kind = "submit" /\ tipo # "" /\ archivo = SinArchivo
  /\ nombreSpan = SpanRequerido(MsgSeleccionarZip)

\* C8: every submit on the data form has its native submission prevented, and
\* one that passes both preconditions issues exactly one request, also when
\* the script ran twice.
C8_UnSoloPost ==
  ev.kind = "submit" => (ev.prevenido /\ (ev.pasa => ev.fetches = 1))

C8_Witness ==
  /\ ev.kind = "submit" /\ ev.pasa /\ ev.fetches = 1
  /\ handlers.submitValida = 2

\* C9: the download is named by the non-empty quoted value of the leftmost
\* filename="..." of the Content-Disposition header, and resultados.zip when
\* the header is absent or has no such value.
ValorEntre(h, i, j) ==
  /\ h[i] \in PrefijosFilename
  /\ h[i + 1] = Comilla
  /\ j >= i + 3
  /\ h[j] = Comilla
  /\ \A k \in (i + 2)..(j - 1) : h[k] # Comilla

Valores(h) ==
  {p \in (1..Len(h)) \X (1..Len(h)) : p[1] + 1 <= Len(h) /\ ValorEntre(h, p[1], p[2])}

C9_NombreDescarga ==
  (fin.hecho /\ fin.descargas # <<>>) =>
    LET h == IF fin.dispo.presente THEN fin.dispo.texto ELSE <<>>
        V == Valores(h)
    IN /\ Len(fin.descargas) = 1
       /\ IF V = {}
          THEN fin.descargas[1] = NombrePorDefecto
          ELSE \E p \in V :
                 /\ \A q \in V : p[1] <= q[1]
                 /\ fin.descargas[1] = SubSeq(h, p[1] + 2, p[2] - 1)

C9_Witness ==
  /\ fin.hecho
  /\ fin.dispo = ConHeader(<<"FILENAME=", Comilla, "y", Comilla>>)
  /\ fin.descargas = << <<"y">> >>

\* C10: a download is triggered only on the success path; a non-success status
\* appends exactly one server-error line (status and body text, empty when the
\* body read fails), a transport failure exactly one network-error line, and
\* neither triggers a download, a success line or the completion sound.
C10_SoloExitoDescarga ==
  [][fin'.hecho =>
       /\ fin'.descargas # <<>> => RespOk(fin'.status)
       /\ (fin'.status # 0 /\ ~RespOk(fin'.status)) =>
            /\ logArea' = Append(logArea,
                 LineaServidor(fin'.status, IF fin'.leido THEN fin'.body ELSE ""))
            /\ fin'.descargas = <<>>
            /\ fin'.sonido = 0
       /\ fin'.status = 0 =>
            /\ logArea' = Append(logArea, LineaRed)
            /\ fin'.descargas = <<>>
            /\ fin'.sonido = 0]_vars

C10_Witness ==
  /\ fin.hecho /\ fin.status = 500 /\ ~fin.leido
  /\ logArea # <<>> /\ logArea[Len(logArea)] = LineaServidor(500, "")

\* C11: the completion sound never affects the rest of the flow: whether
\* playDoneSound is absent, returns without playing, plays or throws, a
\* successful exchange triggers the download, appends the success line and no
\* error line, and restores the submit control.
C11_SonidoNoAfecta ==
  (fin.hecho /\ fin.via \in {"exito", "sonido"}) =>
    /\ Len(fin.descargas) = 1
    /\ fin.lineas = <<LineaExito>>
    /\ fin.nOff > 0
    /\ ~btnDisabled /\ btnLabel = LabelIdle

\* C12: a submission that passes both preconditions appends its start line when
\* it is issued and then exactly one outcome line; when the download was
\* triggered that line is the success line, the last line of the submission.
C12_UnaLineaDeResultado ==
  /\ (ev.kind = "submit" /\ ev.pasa) =>
       /\ Len(logArea) >= ev.fetches
       /\ \A k \in 1..ev.fetches : logArea[Len(logArea) + 1 - k] = LineaInicio
  /\ fin.hecho =>
       /\ Len(fin.lineas) = 1
       /\ fin.lineas[1].k \in {"exito", "servidor", "red"}
       /\ fin.descargas # <<>> => fin.lineas[Len(fin.lineas)] = LineaExito

\* C13: a change of the file picker with a file present records its name under
\* zip_name, sets archivo_seleccionado to "1" and shows the "selected" label;
\* with no file present (also after one was selected) it removes both keys and
\* shows the "no file" label.
C13_CambioDeArchivo ==
  [][ArchivoChange =>
       IF archivo' # SinArchivo
       THEN /\ storage'["zip_name"] = archivo'
            /\ storage'["archivo_seleccionado"] = "1"
            /\ nombreSpan' = SpanOk(archivo')
       ELSE /\ storage'["zip_name"] = Ausente
            /\ storage'["archivo_seleccionado"] = Ausente
            /\ nombreSpan' = SpanNinguno]_vars

\* A file was chosen and submitted on this page, and the picker was emptied
\* while the request is pending.
C13_Witness ==
  /\ EnVuelo # {} /\ logArea # <<>>
  /\ archivo = SinArchivo
  /\ storage["zip_name"] = Ausente /\ storage["archivo_seleccionado"] = Ausente
  /\ nombreSpan = SpanNinguno

\* C14: while the main page is shown, the recorded file name (zip_name and
\* archivo_seleccionado) is present if and only if a file is chosen in the
\* picker, across file and type changes, submits, reset, the settings view
\* and page loads.
C14_NombreSiSoloSiArchivo ==
  pagina = "inicio" =>
    /\ (storage["zip_name"] # Ausente) <=> (archivo # SinArchivo)
    /\ (storage["archivo_seleccionado"] # Ausente) <=> (archivo # SinArchivo)

\* C15: a load of the main page with fue_config_con_zip = "1" leaves the flag,
\* zip_name and archivo_seleccionado absent and the status label in the "must
\* re-select file" warning state.
C15_VueltaDeConfig ==
  [][(pagina = "config" /\ pagina' = "inicio"
        /\ storage["fue_config_con_zip"] = "1")
       => /\ storage'["fue_config_con_zip"] = Ausente
          /\ storage'["zip_name"] = Ausente
          /\ storage'["archivo_seleccionado"] = Ausente
          /\ nombreSpan' = SpanRequerido(MsgVolverACargar)]_vars

\* C16: after the reset listeners have run with no step failing, the storage
\* is empty, the type is empty and unstyled, the file picker is empty, the
\* status label is "no file", the log is empty, and the reference picker is
\* empty with its label at the default text.
C16_LimpiarDejaTodoVacio ==
  (ev.kind = "limpiar" /\ ev.falla = "no") =>
    /\ storage = StorageVacio
    /\ tipo = "" /\ tipoClase = ""
    /\ archivo = SinArchivo
    /\ nombreSpan = SpanNinguno
    /\ logArea = <<>>
    /\ inputSpectralon = ""
    /\ nombreSpectralon = LabelSpectralon(TextoPorDefecto(dataDefault))

\* C17: when one step of the reset throws, every other step (type control,
\* file picker, status label, log, reference picker) is still performed.
C17_FallaNoImpide ==
  (ev.kind = "limpiar" /\ ev.falla # "no") =>
    /\ ev.falla # "storage" => storage = StorageVacio
    /\ ev.falla # "tipo" => (tipo = "" /\ tipoClase = "")
    /\ ev.falla # "archivo" => archivo = SinArchivo
    /\ ev.falla # "span" => nombreSpan = SpanNinguno
    /\ ev.falla # "log" => logArea = <<>>
    /\ ev.falla # "spectralon" => inputSpectralon = ""

\* C18: the submission of the reset form is never prevented, whether or not a
\* reset step throws.
C18_LimpiarNoIntercepta == ev.kind = "limpiar" => ~ev.prevenido

C18_Witness ==
  /\ ev.kind = "limpiar" /\ ev.falla = "storage" /\ ~ev.prevenido
  /\ Len(handlers.limpiarLista) = 3

\* Sequence a is an initial part of sequence b.
EsPrefijo(a, b) == Len(a) <= Len(b) /\ SubSeq(b, 1, Len(a)) = a

\* C19: within one page load, every event other than the reset (type change,
\* file change, blocked or passing submit, each outcome of an exchange,
\* export) leaves the previous log as a prefix of the new log.
C19_LogSoloCrece ==
  [][(\/ TipoChange
      \/ ArchivoChange
      \/ SubmitDatos
      \/ \E i \in Slots : Avanzar(i, DisposicionesMuestra)
      \/ ExportarLog)
       => EsPrefijo(logArea, logArea')]_vars

\* The outcome line of a second submission is appended after three lines.
C19_Witness ==
  /\ fin.hecho /\ fin.lineas # <<>>
  /\ Len(logArea) >= 4
  /\ logArea[Len(logArea)] = fin.lineas[Len(fin.lineas)]

\* C20: the export action clears the log: after an export the log is empty.
C20_ExportVaciaLog == ev.kind = "export" => logArea = <<>>
\* ---- the list parser

\* A text is a strict JSON array when JSON.parse gives an array.
EsArrayJSON(text) == JSONParse(text).ok /\ JSONParse(text).val.t = "arr"

\* C21: for every list of simple tokens, the parse of its JSON serialization
\* and the parse of its comma-separated text both give exactly that list.
C21_DosFormasUnaLista ==
  parse.kind = "formas" => parse.arr = parse.tokens /\ parse.arr2 = parse.tokens

\* C21 witness: two tokens, one with a space inside, separated by comma and
\* space, were parsed in both forms and came out as they went in.
C21_Witness ==
  /\ parse.kind = "formas"
  /\ parse.tokens = <<<<"x", Espacio, "7">>, <<"7">>>>
  /\ parse.sep = <<Coma, Espacio>>
  /\ parse.arr = parse.tokens
  /\ parse.arr2 = parse.tokens

\* C22: for a text that is no strict JSON array the parse holds no empty
\* string.
C22_SinTokensVacios ==
  (parse.kind = "lista" /\ ~EsArrayJSON(parse.texto))
    => \A k \in 1..Len(parse.arr) : parse.arr[k] # <<>>

\* ---- the list editor

\* The lists meas_order accepts: not empty, every element one of spectralon,
\* target and cielo in any case.
Permitidos == {<<"spectralon">>, <<"target">>, <<"cielo">>, <<"Cielo">>}
ListaPermitida(arr) ==
  /\ Len(arr) > 0
  /\ \A k \in 1..Len(arr) : arr[k] \in Permitidos

\* C23: apply() on meas_order with a list that holds an element outside the
\* vocabulary shows the vocabulary error, leaves the editor open and leaves
\* both hidden fields as they were.
C23_FueraDeVocabulario ==
  [][(/\ ApplyEditor
      /\ currentField = "meas_order"
      /\ \E k \in 1..Len(parseToArrayLoose(editor)) :
            parseToArrayLoose(editor)[k] \notin Permitidos)
     => (/\ feedback' = FeedbackSoloVocabulario
         /\ modal'
         /\ inputEl' = inputEl)]_vars

\* C23 witness: the editor is open on meas_order with ["Cielo","x"] in it and
\* shows the vocabulary error.
C23_Witness ==
  /\ modal
  /\ currentField = "meas_order"
  /\ editor = <<CorcheteAbre, Comilla, "Cielo", Comilla, Coma, Comilla, "x", Comilla, CorcheteCierra>>
  /\ feedback = FeedbackSoloVocabulario

\* C24: apply() with a text that parses to the empty list shows the
\* no-values error, leaves the editor open and leaves both hidden fields as
\* they were, on either field.
C24_ListaVacia ==
  [][(ApplyEditor /\ parseToArrayLoose(editor) = <<>>)
     => (/\ feedback' = FeedbackSinValores
         /\ modal'
         /\ inputEl' = inputEl)]_vars

\* C24 witness: the editor is open on meas_order with white space only in it
\* and shows the no-values error.
C24_Witness ==
  /\ modal
  /\ currentField = "meas_order"
  /\ editor = <<Espacio>>
  /\ feedback = FeedbackSinValores

\* C25: currentField is the field of the latest open; an apply() whose list
\* is acceptable writes the JSON serialization of the parsed list into that
\* field, closes the editor and leaves the other field as it was.
C25_EscribeElCampoAbierto ==
  /\ [][\A f \in Campos : OpenEditor(f) => currentField' = f]_vars
  /\ [][currentField' # currentField => \E f \in Campos : OpenEditor(f)]_vars
  /\ [][(/\ ApplyEditor
         /\ Len(parseToArrayLoose(editor)) > 0
         /\ currentField = "meas_order" => ListaPermitida(parseToArrayLoose(editor)))
        => (/\ currentField \in Campos
            /\ inputEl' = [inputEl EXCEPT ![currentField] =
                              JSONStringify(parseToArrayLoose(editor))]
            /\ ~modal')]_vars

\* C25 witness: meas_order was applied earlier, then target_list was opened
\* and x applied to it: the editor is closed and each field holds what was
\* applied to it.
C25_Witness ==
  /\ ~modal
  /\ currentField = "target_list"
  /\ editor = <<"x">>
  /\ inputEl["target_list"] = <<CorcheteAbre, Comilla, "x", Comilla, CorcheteCierra>>
  /\ inputEl["meas_order"] = <<CorcheteAbre, Comilla, "Cielo", Comilla, CorcheteCierra>>

\* C26: dismissing the editor leaves both hidden fields as they were, and so
\* does editing; when the editor is opened again after edits were dismissed
\* it shows the pretty-printed parse of the field's value and no message.
C26_CancelarDescarta ==
  /\ [][(CancelarEditor \/ EditarTexto(TextosEditor)) => inputEl' = inputEl]_vars
  /\ [][\A f \in Campos : OpenEditor(f) =>
          (/\ inputEl' = inputEl
           /\ editor' = JSONStringifyPretty(parseToArrayLoose(inputEl[f]))
           /\ feedback' = FeedbackVacio)]_vars
  /\ [](hist = "reabierto" =>
          (/\ editor = JSONStringifyPretty(parseToArrayLoose(inputEl[currentField]))
           /\ feedback = FeedbackVacio))

\* C26 witness: the editor was opened on meas_order, edited, dismissed and
\* opened again, and shows the list the field held all along.
C26_Witness ==
  /\ hist = "reabierto"
  /\ modal
  /\ currentField = "meas_order"
  /\ inputEl["meas_order"] = <<"spectralon", Coma, Espacio, "Cielo">>
  /\ editor = JSONStringifyPretty(<<<<"spectralon">>, <<"Cielo">>>>)

\* A text is the JSON text of an array whose elements are all strings.
EsArrayDeStrings(text) ==
  /\ JSONParse(text).ok
  /\ JSONParse(text).val.t = "arr"
  /\ \A k \in 1..Len(JSONParse(text).val.v) : JSONParse(text).val.v[k].t = "str"

\* C27: after the submit handler of the settings form each hidden field holds
\* the JSON text of an array of strings, whatever it held before.
C27_SubmitNormaliza ==
  [][SubmitConfig => \A f \in Campos : EsArrayDeStrings(inputEl'[f])]_vars

\* C27 witness: the editor was never opened; meas_order held [7,[]] and
\* target_list held the malformed ["x, and both hold arrays of strings now.
C27_Witness ==
  /\ currentField = Nulo
  /\ inputEl["meas_order"] = JSONStringify(<<<<"7">>, <<>>>>)
  /\ inputEl["target_list"] = JSONStringify(<<<<CorcheteAbre, Comilla, "x">>>>)

\* C28: when meas_order starts with an acceptable list it holds an acceptable
\* list after every open, edit, apply, dismissal and submit.
C28_MedicionSiempreValida ==
  ListaPermitida(parseToArrayLoose(inputEl["meas_order"]))

\* C28 witness: meas_order started with spectralon and Cielo, the list Cielo
\* was applied to it and the form was submitted.
C28_Witness ==
  /\ inputEl["meas_order"] = <<CorcheteAbre, Comilla, "Cielo", Comilla, CorcheteCierra>>
  /\ inputEl["target_list"] = JSONStringify(<<<<"7">>, <<>>>>)
  /\ ~modal

\* ---- the mirror of the type

\* C29: the hidden mirror field holds the selected measurement type after
\* the page load, after every type change and after the reset.
C29_EspejoIgualTipo == hiddenMedicion = tipo

\* ---- the way to the settings view

\* C30: abrirConfiguraciones navigates exactly when a type is chosen and the
\* user, if a ZIP is recorded, confirmed; on navigation fue_config_con_zip is
\* "1" exactly when archivo_seleccionado is "1" and nothing else is stored or
\* dropped; with no navigation the view and the storage stay as they were.
C30_AbrirConfiguraciones ==
  [][\A continuar \in BOOLEAN :
       AbrirConfiguracionesCon(continuar) =>
         (/\ (pagina' = "config") <=>
               (tipo # "" /\ (storage["archivo_seleccionado"] = "1" => continuar))
          /\ pagina' = "config" =>
               (/\ (storage'["fue_config_con_zip"] = "1") <=>
                     (storage'["archivo_seleccionado"] = "1")
                /\ storage'["fue_config_con_zip"] \in {"1", Ausente}
                /\ \A k \in Claves \ {"fue_config_con_zip"} :
                     storage'[k] = storage[k])
          /\ pagina' # "config" => (pagina' = pagina /\ storage' = storage))]_vars

\* C30 witness: with a type chosen and a ZIP recorded the user confirmed, and
\* the tab shows the settings view with fue_config_con_zip stored.
C30_Witness ==
  /\ ev.kind = "config"
  /\ ev.pasa
  /\ pagina = "config"
  /\ tipo # ""
  /\ storage["archivo_seleccionado"] = "1"
  /\ storage["fue_config_con_zip"] = "1"

\* ---- the list parser, twice

\* C32: for every text the parse of the JSON serialization of its parse is
\* its parse again, and the submit normalization done twice gives the field
\* value it gives when done once.
C32_ParseIdempotente ==
  parse.kind \in {"relista", "normal"} => parse.arr2 = parse.arr

\* C32 witness: the text "x," with its two quotes parsed to x and the empty
\* string, and the serialization of that list parsed to the same list.
C32_Witness ==
  /\ parse.kind = "relista"
  /\ parse.texto = <<Comilla, "x", Coma, Comilla>>
  /\ parse.arr = <<<<"x">>, <<>>>>
  /\ parse.arr2 = parse.arr

\* ---- the completion sound

\* C31: playDoneSound starts the playback only after an unlock attempt has
\* succeeded; unlocked, once true, stays true; and once it is true an
\* interaction starts no unlock cycle.
C31_SonidoDesbloqueado ==
  /\ [](sound.ultimo = "reproduccion" => sound.logrado)
  /\ [][sound.unlocked => sound'.unlocked]_vars
  /\ [][(sound.unlocked /\ Interaccion) =>
          (sound'.pendientes = sound.pendientes /\ sound'.ultimo # "desbloqueo")]_vars

\* C31 witness: a second attempt was started before the first one succeeded
\* and still awaits its promise, and playDoneSound has just started the
\* playback.
C31_Witness ==
  /\ sound.unlocked
  /\ sound.logrado
  /\ ~sound.escucha
  /\ sound.pendientes = 1
  /\ sound.ultimo = "reproduccion"

====
